---- MODULE Spec2Model ----
(***************************************************************************)
(* statslogger: the single-writer handoff of the file-sink variant         *)
(* (src/Dockerfile: main, ServeHTTP, saver, shutdown), the cloud-object    *)
(* variant (src/main.go: main, NewServer, json, form, Run), and the        *)
(* handlers of the log-only programs (src/main.go: json, form, log;        *)
(* src/unnamed/part_001: cors, json, form, log) and of the RPC programs    *)
(* (src/unnamed/part_002 and part_003: csp, beacon).                       *)
(***************************************************************************)
EXTENDS Integers, Sequences, FiniteSets, TLC

\* Number of HTTP requests that may arrive during one run.
MaxReq == 2

Req == 1 .. MaxReq

\* The two programs whose whole life is modelled: start, serving, shutdown.
Variants == {"file", "cloud"}

\* The programs of which the request handlers are modelled: the log-only
\* program (src/main.go 1-123), the log-only program with its own cors
\* wrapper (part_001), the stream-RPC program (part_002) and the saver-RPC
\* program (part_003).
LogVariants == {"log_usvc", "log_cors"}
RpcVariants == {"rpc_stream", "rpc_saver"}
HandlerVariants == LogVariants \cup RpcVariants

Methods == {"OPTIONS", "POST", "GET"}

\* Values of the `trigger` form field ("" when the field is absent).
Triggers == {"ping", ""}

Signals == {"SIGINT", "SIGTERM"}

NoEvent == [id |-> 0, Trigger |-> "", Src |-> "", Dst |-> "", Dur |-> ""]

NoReq == [method |-> "", path |-> "", trigger |-> "", valid |-> FALSE]

\* What a handler has put in its response besides the status: the value of
\* Access-Control-Allow-Methods ("" when not set), and whether it wrote a
\* body.
NoResp == [allow |-> "", body |-> FALSE]

\* A decimal int64 as sign and magnitude: the digits of the magnitude, most
\* significant first, without leading zeros (none for 0).
Zero == [neg |-> FALSE, mag |-> << >>]

\* A BeaconRequest with the zero value in every field the handlers set from
\* the form.
NoMsg == [DurationMs |-> Zero, SrcPage |-> "", DstPage |-> ""]

VARIABLES
    variant,    \* which program of the repository runs
    proc,       \* "running", "returned", "fatal", "killed" or "panic"
    mainPc,     \* position of the main goroutine
    sigPc,      \* position of the signal goroutine (cloud-object variant)
    notified,   \* signal.Notify has been called
    sigs,       \* the buffered channel `sigs` (capacity 1)
    ctxDone,    \* ctx has been cancelled (cloud-object variant)
    servePc,    \* position of the goroutine that calls ListenAndServe
    listener,   \* "none", "listening", "closed" or "failed"
    inShutdown, \* srv.Shutdown has been called
    hpc,        \* position of each request's handler
    req,        \* the request each handler serves
    status,     \* the status written by each handler (0: none yet)
    resp,       \* the header and body written by each handler
    rpc,        \* per request: RPC calls made, a call failed, the message sent
    logged,     \* the Info entries on the logger (sink of the log-only programs)
    endpoint,   \* the counters endpoint_hit, cspc, beaconc, by label
    save,       \* the channel s.save: [buf, closed]
    done,       \* the channel s.done has been closed
    saverPc,    \* position of each saver goroutine
    cur,        \* the event each saver holds
    defers,     \* each saver's stack of deferred calls
    f,          \* the tokens appended to the data file
    fOpen,      \* number of open handles on the sink
    opens,      \* how many times a sink handle was opened
    closes,     \* how many times a sink handle was closed
    wbuf,       \* the lines the object writer s.w has taken (cloud)
    obj,        \* the lines of the stored object, once committed (cloud)
    trigger,    \* the counter vector s.trigger, by label
    accepted,   \* history: events the sink's writer accepted, in order
    wroteSink,  \* history: the tasks that performed a write on the sink
    signalled,  \* history: a signal has been delivered to the process
    atSignal,   \* history: the events accepted when the first signal came
    allBlocked, \* history: at the first signal every handler was at the handoff
    openFailed, \* history: opening the sink failed
    writeErr,   \* history: a write to the sink failed
    late        \* history: requests whose submit was issued after the close

vars == << variant, proc, mainPc, sigPc, notified, sigs, ctxDone, servePc,
           listener, inShutdown, hpc, req, status, resp, rpc, logged,
           endpoint, save, done, saverPc,
           cur, defers, f, fOpen, opens, closes, wbuf, obj, trigger, accepted,
           wroteSink, signalled, atSignal, allBlocked, openFailed, writeErr, late >>

mainVars == << mainPc, sigPc, notified, sigs, ctxDone >>
httpVars == << servePc, listener, inShutdown >>
reqVars == << hpc, req, status, resp, trigger, late >>
handlerVars == << rpc, logged, endpoint >>
chanVars == << save, done >>
saverVars == << saverPc, cur, defers >>
fileVars == << f, fOpen, opens, closes >>
cloudVars == << wbuf, obj >>
histVars == << accepted, wroteSink, signalled, atSignal, allBlocked, openFailed, writeErr >>

----------------------------------------------------------------------------
\* The program's constants and pure functions.

\* A second `go s.saver()`.
TwoSavers == {"saver", "saver2"}

\* `go s.saver()` is executed once: one saver goroutine.
Savers == {"saver"}

\* make(chan event, 1): a buffered handoff channel.
SaveCapBuffered == 0 + 1

\* make(chan event): the handoff channel is unbuffered.
SaveCap == 0

\* signal.Notify(sigs, ...): the signals the program catches.
Caught(v) == IF v = "file" THEN {"SIGINT"} ELSE {"SIGINT", "SIGTERM"}

\* The paths that record events.
Paths(v) == IF v = "file" THEN {"/api"} ELSE {"/form", "/json"}

\* The method filter of a handler: "preflight", "record" or "reject".
Filter(v, q) ==
    IF q.method = "OPTIONS" THEN "preflight"
    ELSE IF v = "file" THEN (IF q.method = "POST" THEN "record" ELSE "reject")
    ELSE IF q.path = "/json" THEN (IF q.method = "POST" THEN "record" ELSE "reject")
    ELSE (IF q.method \in {"GET", "POST"} THEN "record" ELSE "reject")

\* url.Values.Get with the last value of the key instead of the first.
FormGetLast(form, k) == IF form[k] = << >> THEN "" ELSE form[k][Len(form[k])]

\* url.Values.Get: the first value of the key, "" when the key has none.
FormGet(form, k) == IF form[k] = << >> THEN "" ELSE form[k][1]

\* The event literal of ServeHTTP (Time and Remote identify the request).
event(id, form) ==
    [id |-> id,
     Trigger |-> FormGet(form, "trigger"),
     Src |-> FormGet(form, "src"),
     Dst |-> FormGet(form, "dst"),
     Dur |-> FormGet(form, "dur")]

\* r.Form after ParseForm. A request that carries its whole form has it in
\* q.form; the others have at most the field `trigger`, once.
FormOf(q) ==
    IF "form" \in DOMAIN q THEN q.form
    ELSE [k \in {"trigger", "src", "dst", "dur"} |->
            IF k = "trigger" /\ q.trigger # "" THEN << q.trigger >> ELSE << >>]

\* The event built by ServeHTTP for request r.
EventOf(r, q) == event(r, FormOf(q))

Tok(t, n, s) == [t |-> t, n |-> n, s |-> s]

\* json.Encoder.Encode: the object, then a newline.
Encode(e) == << Tok("{", 0, ""), Tok("Time", e.id, ""),
                Tok("Trigger", 0, e.Trigger), Tok("Src", 0, e.Src),
                Tok("Dst", 0, e.Dst), Tok("Dur", 0, e.Dur),
                Tok("}", 0, ""), Tok("\n", 0, "") >>

\* One Write of a line reaches the file in two pieces (a write that the
\* kernel splits, or that fails half way).
Chunk1(line) == SubSeq(line, 1, 2)
Chunk2(line) == SubSeq(line, 3, Len(line))

\* Reading the sink back: the complete lines (split at the newlines) ...
RECURSIVE SplitLines(_, _, _)
SplitLines(toks, line, acc) ==
    IF toks = << >> THEN acc
    ELSE IF Head(toks).t = "\n" THEN SplitLines(Tail(toks), << >>, Append(acc, line))
    ELSE SplitLines(Tail(toks), Append(line, Head(toks)), acc)

Lines(toks) == SplitLines(toks, << >>, << >>)

\* ... the unterminated rest after the last newline ...
RECURSIVE Rest(_, _)
Rest(toks, line) ==
    IF toks = << >> THEN line
    ELSE IF Head(toks).t = "\n" THEN Rest(Tail(toks), << >>)
    ELSE Rest(Tail(toks), Append(line, Head(toks)))

\* ... and json.Unmarshal of one line into an event (NoEvent when the line
\* is not the encoding of an event).
Decode(line) ==
    IF /\ Len(line) = 7
       /\ line[1].t = "{"
       /\ line[2].t = "Time"
       /\ line[3].t = "Trigger"
       /\ line[4].t = "Src"
       /\ line[5].t = "Dst"
       /\ line[6].t = "Dur"
       /\ line[7].t = "}"
    THEN [id |-> line[2].n, Trigger |-> line[3].s, Src |-> line[4].s,
          Dst |-> line[5].s, Dur |-> line[6].s]
    ELSE NoEvent

\* The labels of the counter vector: the trigger (file) or the path (cloud).
Labels == Triggers \cup {"/form", "/json"}

Label(v, q) == IF v = "file" THEN q.trigger ELSE q.path

\* The counters of the handler programs: endpoint_hit with the label
\* endpoint=json or endpoint=form, statslogger_csp_requests and
\* statslogger_beacon_requests.
EndpointLabels == {"json", "form", "csp", "beacon"}

Active(r) == hpc[r] \notin {"idle", "done", "panic"}

\* The tokens the sink holds: the file, or the stored object.
Sink == IF variant = "file" THEN f ELSE obj

SinkEvents == { Decode(Lines(Sink)[i]) : i \in 1 .. Len(Lines(Sink)) }

Range(q) == { q[i] : i \in 1 .. Len(q) }

----------------------------------------------------------------------------
Init ==
    /\ variant \in Variants \cup HandlerVariants
    /\ proc = "running"
    /\ mainPc = IF variant = "file" THEN "go_saver"
                ELSE IF variant = "cloud" THEN "new" ELSE "serve"
    /\ sigPc = IF variant = "cloud" THEN "notify" ELSE "none"
    /\ notified = FALSE
    /\ sigs = << >>
    /\ ctxDone = FALSE
    /\ servePc = "none"
    /\ listener = IF variant \in Variants THEN "none" ELSE "listening"
    /\ inShutdown = FALSE
    /\ hpc = [r \in Req |-> "idle"]
    /\ req = [r \in Req |-> NoReq]
    /\ status = [r \in Req |-> 0]
    /\ resp = [r \in Req |-> NoResp]
    /\ rpc = [r \in Req |-> [n |-> 0, err |-> FALSE, msg |-> NoMsg]]
    /\ logged = << >>
    /\ endpoint = [l \in EndpointLabels |-> 0]
    /\ save = [buf |-> << >>, closed |-> FALSE]
    /\ done = FALSE
    /\ saverPc = [s \in Savers |-> "none"]
    /\ cur = [s \in Savers |-> NoEvent]
    /\ defers = [s \in Savers |-> << >>]
    /\ f = << >>
    /\ fOpen = 0
    /\ opens = 0
    /\ closes = 0
    /\ wbuf = << >>
    /\ obj = << >>
    /\ trigger = [l \in Labels |-> 0]
    /\ accepted = << >>
    /\ wroteSink = {}
    /\ signalled = FALSE
    /\ atSignal = {}
    /\ allBlocked = FALSE
    /\ openFailed = FALSE
    /\ writeErr = FALSE
    /\ late = {}

----------------------------------------------------------------------------
\* The environment: signals, and the HTTP server of net/http.

\* A signal is delivered to the process. A signal the program has asked for
\* goes to `sigs` (dropped when the channel is full); any other terminates
\* the process at once (the runtime's default action).
Signal(sig) ==
    /\ variant \in Variants
    /\ proc = "running"
    /\ signalled' = TRUE
    /\ atSignal' = IF signalled THEN atSignal ELSE Range(accepted)
    /\ allBlocked' = IF signalled THEN allBlocked
                   ELSE variant = "file" /\ \A r \in Req : hpc[r] = "send"
    /\ IF notified /\ sig \in Caught(variant)
       THEN /\ sigs' = IF Len(sigs) < 1 THEN << sig >> ELSE sigs
            /\ proc' = proc
       ELSE /\ proc' = "killed"
            /\ sigs' = sigs
    /\ UNCHANGED << variant, handlerVars, mainPc, sigPc, notified, ctxDone, httpVars,
                    reqVars, chanVars, saverVars, fileVars, cloudVars,
                    accepted, wroteSink, openFailed, writeErr >>

\* srv.ListenAndServe binds the listener, unless Shutdown was called first.
ServeListen ==
    /\ proc = "running"
    /\ servePc = "listen"
    /\ IF inShutdown
       THEN /\ servePc' = IF variant = "file" THEN "exit" ELSE "errc"
            /\ listener' = listener
       ELSE /\ servePc' = "serving"
            /\ listener' = "listening"
    /\ UNCHANGED << variant, handlerVars, proc, mainVars, inShutdown, reqVars, chanVars,
                    saverVars, fileVars, cloudVars, histVars >>

\* srv.ListenAndServe returns an error: the address cannot be bound, or
\* Accept fails. The file variant logs it; the cloud variant offers it on
\* errc.
ServeError ==
    /\ proc = "running"
    /\ servePc \in {"listen", "serving"}
    /\ ~inShutdown
    /\ listener' = "failed"
    /\ servePc' = IF variant = "file" THEN "exit" ELSE "errc"
    /\ UNCHANGED << variant, handlerVars, proc, mainVars, inShutdown, reqVars, chanVars,
                    saverVars, fileVars, cloudVars, histVars >>

\* The next request arrives and its handler runs up to its first step on
\* shared state: the method filter, WriteHeader, then ParseForm and the
\* construction of the event (file), or reading the body and json.Valid,
\* which ends the handler of an invalid body (cloud). The fields of q that the handler never
\* reads (the form of a request it does not record, the validity of a body
\* it does not parse) are left at one value.
Accept(r, q) ==
    /\ variant \in Variants
    /\ proc = "running"
    /\ listener = "listening"
    /\ hpc[r] = "idle"
    /\ \A p \in Req : p < r => hpc[p] # "idle"
    /\ q.path \in Paths(variant)
    /\ (variant = "cloud" \/ Filter(variant, q) # "record") => q.trigger = ""
    /\ (q.path # "/json" \/ Filter(variant, q) # "record") => q.valid
    /\ req' = [req EXCEPT ![r] = q]
    /\ status' = [status EXCEPT ![r] =
                    IF Filter(variant, q) = "reject" THEN 405 ELSE 204]
    /\ resp' = [resp EXCEPT ![r] =
                    IF Filter(variant, q) = "preflight"
                    THEN [allow |-> "POST, GET, OPTIONS", body |-> FALSE]
                    ELSE NoResp]
    /\ hpc' = [hpc EXCEPT ![r] =
                    IF Filter(variant, q) # "record" THEN "done"
                    ELSE IF variant = "file" THEN "send"
                    ELSE IF q.valid THEN "log" ELSE "done"]
    /\ UNCHANGED << variant, handlerVars, proc, mainVars, httpVars, trigger, late,
                    chanVars, saverVars, fileVars, cloudVars, histVars >>

\* srv.Shutdown: the listener is closed ...
SrvShutdown ==
    /\ proc = "running"
    /\ mainPc = "srv_shutdown"
    /\ inShutdown' = TRUE
    /\ listener' = IF listener = "listening" THEN "closed" ELSE listener
    /\ mainPc' = "srv_wait"
    /\ UNCHANGED << variant, handlerVars, proc, sigPc, notified, sigs, ctxDone, servePc,
                    reqVars, chanVars, saverVars, fileVars, cloudVars,
                    histVars >>

\* A Shutdown that returns while handlers are still running.
SrvShutdownReturnNoWait ==
    /\ proc = "running"
    /\ mainPc = "srv_wait"
    /\ mainPc' = IF variant = "file" THEN "close_save" ELSE "w_close"
    /\ UNCHANGED << variant, handlerVars, proc, sigPc, notified, sigs, ctxDone, httpVars,
                    reqVars, chanVars, saverVars, fileVars, cloudVars,
                    histVars >>

\* ... and Shutdown returns once no handler is running.
SrvShutdownReturn ==
    /\ proc = "running"
    /\ mainPc = "srv_wait"
    /\ \A r \in Req : ~Active(r)
    /\ mainPc' = IF variant = "file" THEN "close_save" ELSE "w_close"
    /\ UNCHANGED << variant, handlerVars, proc, sigPc, notified, sigs, ctxDone, httpVars,
                    reqVars, chanVars, saverVars, fileVars, cloudVars,
                    histVars >>

\* main returns: the process exits with status 0.
MainReturn ==
    /\ proc = "running"
    /\ mainPc = "exit"
    /\ proc' = "returned"
    /\ UNCHANGED << variant, handlerVars, mainVars, httpVars, reqVars, chanVars,
                    saverVars, fileVars, cloudVars, histVars >>

\* s.trigger.WithLabelValues(...).Inc(), then the handler returns.
HandlerInc(r) ==
    /\ proc = "running"
    /\ hpc[r] = "inc"
    /\ trigger' = [trigger EXCEPT ![Label(variant, req[r])] = @ + 1]
    /\ hpc' = [hpc EXCEPT ![r] = "done"]
    /\ UNCHANGED << variant, handlerVars, proc, mainVars, httpVars, req, status, resp, late,
                    chanVars, saverVars, fileVars, cloudVars, histVars >>

----------------------------------------------------------------------------
\* The file-sink variant (src/Dockerfile).

\* go s.saver()
MainGoSaver ==
    /\ proc = "running"
    /\ variant = "file"
    /\ mainPc = "go_saver"
    /\ saverPc' = [s \in Savers |-> "start"]
    /\ mainPc' = "go_serve"
    /\ UNCHANGED << variant, handlerVars, proc, sigPc, notified, sigs, ctxDone, httpVars,
                    reqVars, chanVars, cur, defers, fileVars, cloudVars,
                    histVars >>

\* go func() { ... srv.ListenAndServe() ... }()
MainGoServe ==
    /\ proc = "running"
    /\ mainPc = "go_serve"
    /\ servePc' = "listen"
    /\ mainPc' = "notify"
    /\ UNCHANGED << variant, handlerVars, proc, sigPc, notified, sigs, ctxDone, listener,
                    inShutdown, reqVars, chanVars, saverVars, fileVars,
                    cloudVars, histVars >>

\* signal.Notify(sigs, syscall.SIGINT)
MainNotify ==
    /\ proc = "running"
    /\ mainPc = "notify"
    /\ notified' = TRUE
    /\ mainPc' = "wait_sig"
    /\ UNCHANGED << variant, handlerVars, proc, sigPc, sigs, ctxDone, httpVars, reqVars,
                    chanVars, saverVars, fileVars, cloudVars, histVars >>

\* <-sigs
MainCaught ==
    /\ proc = "running"
    /\ mainPc = "wait_sig"
    /\ sigs # << >>
    /\ sigs' = Tail(sigs)
    /\ mainPc' = "srv_shutdown"
    /\ UNCHANGED << variant, handlerVars, proc, sigPc, notified, ctxDone, httpVars,
                    reqVars, chanVars, saverVars, fileVars, cloudVars,
                    histVars >>

\* shutdown: close(s.save) (closing a closed channel panics)
MainCloseSave ==
    /\ proc = "running"
    /\ mainPc = "close_save"
    /\ IF save.closed
       THEN /\ proc' = "panic"
            /\ UNCHANGED << save, mainPc >>
       ELSE /\ save' = [save EXCEPT !.closed = TRUE]
            /\ mainPc' = "wait_done"
            /\ proc' = proc
    /\ UNCHANGED << variant, handlerVars, sigPc, notified, sigs, ctxDone, httpVars,
                    reqVars, done, saverVars, fileVars, cloudVars, histVars >>

\* shutdown: <-s.done
MainWaitDone ==
    /\ proc = "running"
    /\ mainPc = "wait_done"
    /\ done
    /\ mainPc' = "exit"
    /\ UNCHANGED << variant, handlerVars, proc, sigPc, notified, sigs, ctxDone, httpVars,
                    reqVars, chanVars, saverVars, fileVars, cloudVars,
                    histVars >>

\* ServeHTTP: s.save <- e. A send on a closed channel panics (net/http
\* recovers the panic and drops the connection); with room in the buffer the
\* event is queued; otherwise the send completes when a saver that waits in
\* its receive takes the event.
HandlerSend(r) ==
    /\ proc = "running"
    /\ hpc[r] = "send"
    /\ IF save.closed
       THEN /\ hpc' = [hpc EXCEPT ![r] = "panic"]
            /\ late' = late \cup {r}
            /\ UNCHANGED << save, saverPc, cur, accepted >>
       ELSE IF Len(save.buf) < SaveCap
       THEN /\ save' = [save EXCEPT !.buf = Append(@, EventOf(r, req[r]))]
            /\ hpc' = [hpc EXCEPT ![r] = "inc"]
            /\ UNCHANGED << late, saverPc, cur, accepted >>
       ELSE \E s \in Savers :
            /\ saverPc[s] = "recv"
            /\ save.buf = << >>
            /\ saverPc' = [saverPc EXCEPT ![s] = "encode"]
            /\ cur' = [cur EXCEPT ![s] = EventOf(r, req[r])]
            /\ accepted' = Append(accepted, EventOf(r, req[r]))
            /\ hpc' = [hpc EXCEPT ![r] = "inc"]
            /\ UNCHANGED << late, save >>
    /\ UNCHANGED << variant, handlerVars, proc, mainVars, httpVars, req, status, resp, trigger,
                    done, defers, fileVars, cloudVars, wroteSink, signalled,
                    atSignal, allBlocked, openFailed, writeErr >>

\* saver: defer close(s.done)
SaverStart(s) ==
    /\ proc = "running"
    /\ saverPc[s] = "start"
    /\ defers' = [defers EXCEPT ![s] = Append(@, "close(done)")]
    /\ saverPc' = [saverPc EXCEPT ![s] = "open"]
    /\ UNCHANGED << variant, handlerVars, proc, mainVars, httpVars, reqVars, chanVars,
                    cur, fileVars, cloudVars, histVars >>

\* saver without its `defer f.Close()`.
SaverOpenNoClose(s) ==
    /\ proc = "running"
    /\ saverPc[s] = "open"
    /\ \E ok \in BOOLEAN :
        IF ok
        THEN /\ opens' = opens + 1
             /\ fOpen' = fOpen + 1
             /\ saverPc' = [saverPc EXCEPT ![s] = "recv"]
             /\ UNCHANGED << proc, openFailed, defers >>
        ELSE /\ openFailed' = TRUE
             /\ proc' = "fatal"
             /\ UNCHANGED << opens, fOpen, defers, saverPc >>
    /\ UNCHANGED << variant, handlerVars, mainVars, httpVars, reqVars, chanVars, cur, f,
                    closes, cloudVars, accepted, wroteSink, signalled,
                    atSignal, allBlocked, writeErr >>

\* saver: os.OpenFile; Fatalw (os.Exit(1)) on error; defer f.Close()
SaverOpen(s) ==
    /\ proc = "running"
    /\ saverPc[s] = "open"
    /\ \E ok \in BOOLEAN :
        IF ok
        THEN /\ opens' = opens + 1
             /\ fOpen' = fOpen + 1
             /\ defers' = [defers EXCEPT ![s] = Append(@, "f.Close")]
             /\ saverPc' = [saverPc EXCEPT ![s] = "recv"]
             /\ UNCHANGED << proc, openFailed >>
        ELSE /\ openFailed' = TRUE
             /\ proc' = "fatal"
             /\ UNCHANGED << opens, fOpen, defers, saverPc >>
    /\ UNCHANGED << variant, handlerVars, mainVars, httpVars, reqVars, chanVars, cur, f,
                    closes, cloudVars, accepted, wroteSink, signalled,
                    atSignal, allBlocked, writeErr >>

\* A receive loop that never observes the close of the channel.
SaverRecvNoClose(s) ==
    /\ proc = "running"
    /\ saverPc[s] = "recv"
    /\ save.buf # << >>
    /\ cur' = [cur EXCEPT ![s] = Head(save.buf)]
    /\ accepted' = Append(accepted, Head(save.buf))
    /\ save' = [save EXCEPT !.buf = Tail(@)]
    /\ saverPc' = [saverPc EXCEPT ![s] = "encode"]
    /\ UNCHANGED << variant, handlerVars, proc, mainVars, httpVars, reqVars, done, defers,
                    fileVars, cloudVars, wroteSink, signalled, atSignal, allBlocked,
                    openFailed, writeErr >>

\* saver: for e := range s.save, when no sender hands an event over: take
\* a queued event, or leave the loop when the channel is closed and empty.
SaverRecv(s) ==
    /\ proc = "running"
    /\ saverPc[s] = "recv"
    /\ IF save.buf # << >>
       THEN /\ cur' = [cur EXCEPT ![s] = Head(save.buf)]
            /\ accepted' = Append(accepted, Head(save.buf))
            /\ save' = [save EXCEPT !.buf = Tail(@)]
            /\ saverPc' = [saverPc EXCEPT ![s] = "encode"]
       ELSE /\ save.closed
            /\ saverPc' = [saverPc EXCEPT ![s] = "defers"]
            /\ UNCHANGED << cur, accepted, save >>
    /\ UNCHANGED << variant, handlerVars, proc, mainVars, httpVars, reqVars, done, defers,
                    fileVars, cloudVars, wroteSink, signalled, atSignal, allBlocked,
                    openFailed, writeErr >>

\* saver: j.Encode(e) starts to write the line ...
EncodeBegin(s) ==
    /\ proc = "running"
    /\ saverPc[s] = "encode"
    /\ f' = f \o Chunk1(Encode(cur[s]))
    /\ wroteSink' = wroteSink \cup {"saver"}
    /\ saverPc' = [saverPc EXCEPT ![s] = "encoding"]
    /\ UNCHANGED << variant, handlerVars, proc, mainVars, httpVars, reqVars, chanVars,
                    cur, defers, fOpen, opens, closes, cloudVars, accepted,
                    signalled, atSignal, allBlocked, openFailed, writeErr >>

\* ... and completes it: back to the receive.
EncodeEnd(s) ==
    /\ proc = "running"
    /\ saverPc[s] = "encoding"
    /\ f' = f \o Chunk2(Encode(cur[s]))
    /\ cur' = [cur EXCEPT ![s] = NoEvent]
    /\ saverPc' = [saverPc EXCEPT ![s] = "recv"]
    /\ UNCHANGED << variant, handlerVars, proc, mainVars, httpVars, reqVars, chanVars,
                    defers, fOpen, opens, closes, cloudVars, histVars >>

\* saver that logs a failed Encode with Errorw and goes on with its loop.
EncodeFailContinue(s) ==
    /\ proc = "running"
    /\ saverPc[s] \in {"encode", "encoding"}
    /\ writeErr' = TRUE
    /\ saverPc' = [saverPc EXCEPT ![s] = "recv"]
    /\ cur' = [cur EXCEPT ![s] = NoEvent]
    /\ UNCHANGED << variant, handlerVars, proc, mainVars, httpVars, reqVars, chanVars,
                    defers, fileVars, cloudVars, accepted, wroteSink,
                    signalled, atSignal, allBlocked, openFailed >>

\* saver: Encode returns an error, before or in the middle of the write:
\* s.log.Fatalw, which ends the process with os.Exit(1).
EncodeFail(s) ==
    /\ proc = "running"
    /\ saverPc[s] \in {"encode", "encoding"}
    /\ writeErr' = TRUE
    /\ proc' = "fatal"
    /\ UNCHANGED << variant, handlerVars, mainVars, httpVars, reqVars, chanVars,
                    saverVars, fileVars, cloudVars, accepted, wroteSink,
                    signalled, atSignal, allBlocked, openFailed >>

\* Deferred calls run in the order of their registration.
DeferNextFifo(stack) == 1

\* The deferred call that runs next: the one registered last.
DeferNext(stack) == Len(stack)

DeferRest(stack) ==
    [i \in 1 .. Len(stack) - 1 |->
        IF i < DeferNext(stack) THEN stack[i] ELSE stack[i + 1]]

\* saver returns: its deferred calls run one by one, f.Close() and
\* close(s.done) (closing a closed channel panics).
SaverDefer(s) ==
    /\ proc = "running"
    /\ saverPc[s] = "defers"
    /\ defers[s] # << >>
    /\ defers' = [defers EXCEPT ![s] = DeferRest(@)]
    /\ saverPc' = [saverPc EXCEPT ![s] =
                      IF Len(defers[s]) = 1 THEN "exited" ELSE "defers"]
    /\ IF defers[s][DeferNext(defers[s])] = "f.Close"
       THEN /\ fOpen' = fOpen - 1
            /\ closes' = closes + 1
            /\ UNCHANGED << done, proc >>
       ELSE /\ IF done THEN proc' = "panic" ELSE proc' = proc
            /\ done' = TRUE
            /\ UNCHANGED << fOpen, closes >>
    /\ UNCHANGED << variant, handlerVars, mainVars, httpVars, reqVars, save, cur, f,
                    opens, cloudVars, histVars >>

----------------------------------------------------------------------------
\* The cloud-object variant (src/main.go, second program).

\* main's goroutine: signal.Notify(sigs, SIGINT, SIGTERM)
SigNotify ==
    /\ proc = "running"
    /\ sigPc = "notify"
    /\ notified' = TRUE
    /\ sigPc' = "wait"
    /\ UNCHANGED << variant, handlerVars, proc, mainPc, sigs, ctxDone, httpVars, reqVars,
                    chanVars, saverVars, fileVars, cloudVars, histVars >>

\* main's goroutine: <-sigs; cancel()
SigCancel ==
    /\ proc = "running"
    /\ sigPc = "wait"
    /\ sigs # << >>
    /\ sigs' = Tail(sigs)
    /\ ctxDone' = TRUE
    /\ sigPc' = "end"
    /\ UNCHANGED << variant, handlerVars, proc, mainPc, notified, httpVars, reqVars,
                    chanVars, saverVars, fileVars, cloudVars, histVars >>

\* NewServer: storage.NewClient (Fatal on error), then s.w = o.NewWriter(ctx)
NewServer ==
    /\ proc = "running"
    /\ variant = "cloud"
    /\ mainPc = "new"
    /\ \E ok \in BOOLEAN :
        IF ok
        THEN /\ opens' = opens + 1
             /\ fOpen' = fOpen + 1
             /\ mainPc' = "run"
             /\ UNCHANGED << proc, openFailed >>
        ELSE /\ openFailed' = TRUE
             /\ proc' = "fatal"
             /\ UNCHANGED << opens, fOpen, mainPc >>
    /\ UNCHANGED << variant, handlerVars, sigPc, notified, sigs, ctxDone, httpVars,
                    reqVars, chanVars, saverVars, f, closes, cloudVars,
                    accepted, wroteSink, signalled, atSignal, allBlocked, writeErr >>

\* Run: go func() { errc <- s.srv.ListenAndServe() }()
RunGoServe ==
    /\ proc = "running"
    /\ mainPc = "run"
    /\ servePc' = "listen"
    /\ mainPc' = "select"
    /\ UNCHANGED << variant, handlerVars, proc, sigPc, notified, sigs, ctxDone, listener,
                    inShutdown, reqVars, chanVars, saverVars, fileVars,
                    cloudVars, histVars >>

\* Run: case err = <-errc
RunErr ==
    /\ proc = "running"
    /\ mainPc = "select"
    /\ servePc = "errc"
    /\ servePc' = "exit"
    /\ mainPc' = "w_close"
    /\ UNCHANGED << variant, handlerVars, proc, sigPc, notified, sigs, ctxDone, listener,
                    inShutdown, reqVars, chanVars, saverVars, fileVars,
                    cloudVars, histVars >>

\* Run: case <-s.ctx.Done(), then s.srv.Shutdown(ctx) with its timeout
RunCtxDone ==
    /\ proc = "running"
    /\ mainPc = "select"
    /\ ctxDone
    /\ mainPc' = "srv_shutdown"
    /\ UNCHANGED << variant, handlerVars, proc, sigPc, notified, sigs, ctxDone, httpVars,
                    reqVars, chanVars, saverVars, fileVars, cloudVars,
                    histVars >>

\* Run: the 10 seconds of Shutdown's context pass while a handler runs.
SrvShutdownTimeout ==
    /\ proc = "running"
    /\ variant = "cloud"
    /\ mainPc = "srv_wait"
    /\ \E r \in Req : Active(r)
    /\ mainPc' = "w_close"
    /\ UNCHANGED << variant, handlerVars, proc, sigPc, notified, sigs, ctxDone, httpVars,
                    reqVars, chanVars, saverVars, fileVars, cloudVars,
                    histVars >>

\* Run: s.w.Close(). The object is stored by a Close whose context is live;
\* a cancelled context stops the upload without saving the data.
RunClose ==
    /\ proc = "running"
    /\ mainPc = "w_close"
    /\ closes' = closes + 1
    /\ fOpen' = fOpen - 1
    /\ obj' = IF ctxDone THEN obj ELSE wbuf
    /\ mainPc' = "exit"
    /\ UNCHANGED << variant, handlerVars, proc, sigPc, notified, sigs, ctxDone, httpVars,
                    reqVars, chanVars, saverVars, f, opens, wbuf, histVars >>

\* json / form: s.data.Log()...Msg("received") calls s.w.Write from the
\* handler's goroutine. The writer takes the line, or (writer closed,
\* context cancelled) it returns an error, which Msg does not report.
HandlerLog(r) ==
    /\ proc = "running"
    /\ hpc[r] = "log"
    /\ hpc' = [hpc EXCEPT ![r] = "inc"]
    /\ wroteSink' = wroteSink \cup {"handler"}
    /\ late' = IF fOpen = 0 THEN late \cup {r} ELSE late
    /\ IF fOpen > 0 /\ ~ctxDone
       THEN /\ wbuf' = wbuf \o Encode(EventOf(r, req[r]))
            /\ accepted' = Append(accepted, EventOf(r, req[r]))
       ELSE UNCHANGED << wbuf, accepted >>
    /\ UNCHANGED << variant, handlerVars, proc, mainVars, httpVars, req, status, resp, trigger,
                    chanVars, saverVars, fileVars, obj, signalled, atSignal, allBlocked,
                    openFailed, writeErr >>

----------------------------------------------------------------------------
----------------------------------------------------------------------------
\* The handler programs: the log-only programs (src/main.go 1-123 and
\* src/unnamed/part_001) and the RPC programs (part_002, part_003). Their
\* handlers share nothing but the logger and the counters, so one handler
\* runs from the arrival of its request to its first blocking call (the
\* downstream RPC) or to its end in one step.

\* The methods of the requests sent to these programs.
HMethods == Methods \cup {"PUT"}

\* csp and beacon never look at the method: the RPC programs are sent one
\* method that the endpoints are documented to accept and one that they are
\* not.
RpcMethods == {"POST", "PUT"}

\* A request body as encoding/json sees it: whether it is JSON at all,
\* whether its top-level value is an object, which of the keys the code looks
\* at the object has, and whether the value under that key is an object.
Bodies ==
    { b \in [json : BOOLEAN, top : {"object", "other"},
             key : {"", "csp-report", "trigger"}, val : {"object", "other"}] :
        /\ (~b.json) => b.top = "other"
        /\ b.top = "other" => b.key = ""
        /\ b.key = "" => b.val = "other" }

NoBody == [json |-> FALSE, top |-> "other", key |-> "", val |-> "other"]

\* json.Valid.
JsonValid(b) == b.json

\* The Go types json.Unmarshal puts in an interface{}.
JsonTypes == {"nil", "bool", "float64", "string", "[]interface {}",
              "map[string]interface {}"}

\* x.(T) without the ok form: the value when x holds a T, a run-time panic
\* otherwise.
TypeAssert(types, T) == IF types \subseteq {T} THEN "ok" ELSE "panic"

\* log(b): the message of the entry. The branch for a `trigger` object
\* evaluates m2["src"].([]string) on a value that json.Unmarshal produced.
log(b) ==
    IF ~(b.json /\ b.top = "object") THEN "received"
    ELSE IF b.key = "csp-report"
         THEN (IF b.val # "object" THEN "received" ELSE "csp policy")
    ELSE IF b.key = "trigger"
         THEN (IF b.val # "object" THEN "received"
               ELSE IF TypeAssert(JsonTypes, "[]string") = "ok" THEN "viewed"
               ELSE "panic")
    ELSE "received"

\* cors (part_001): "preflight", "pass" or "reject". The log-only program of
\* src/main.go registers its handlers on the mux as they are.
cors(v, method) ==
    IF v # "log_cors" THEN "pass"
    ELSE IF method = "OPTIONS" THEN "preflight"
    ELSE IF method \in {"GET", "POST"} THEN "pass"
    ELSE "reject"

\* The headers cors sets before it calls the handler.
CorsResp(v) ==
    IF v = "log_cors" THEN [allow |-> "GET, POST", body |-> FALSE] ELSE NoResp

\* json.Marshal(r.Form): an object with one array per form field.
FormJSON(q) ==
    [json |-> TRUE, top |-> "object",
     key |-> IF q.trigger = "" THEN "" ELSE "trigger", val |-> "other"]

\* json.NewDecoder(...).Decode(&cspReport): fails when the body is not JSON,
\* not an object, or has a csp-report that is not an object.
DecodeCsp(b) ==
    /\ b.json
    /\ b.top = "object"
    /\ b.key = "csp-report" => b.val = "object"

\* The deferred s.endpoint.Add of part_001; the program of src/main.go
\* creates the counter and never adds to it.
EndpointAdd(v, l) ==
    IF v = "log_cors" THEN [endpoint EXCEPT ![l] = @ + 1] ELSE endpoint

\* Strings that the code takes apart are sequences of characters.
DigitChars == << "0", "1", "2", "3", "4", "5", "6", "7", "8", "9" >>

IsDigit(c) == \E i \in 1 .. 10 : DigitChars[i] = c

DigitVal(c) == (CHOOSE i \in 1 .. 10 : DigitChars[i] = c) - 1

Chars(ds) == [i \in 1 .. Len(ds) |-> DigitChars[ds[i] + 1]]

Ms == << "m", "s" >>

\* strings.HasSuffix and strings.TrimSuffix: the suffix is removed once.
HasSuffix(s, suffix) ==
    /\ Len(s) >= Len(suffix)
    /\ SubSeq(s, Len(s) - Len(suffix) + 1, Len(s)) = suffix

TrimSuffix(s, suffix) ==
    IF HasSuffix(s, suffix) THEN SubSeq(s, 1, Len(s) - Len(suffix)) ELSE s

\* 1<<63 - 1, and the cutoff 1<<63 of ParseInt with bitSize 64.
MaxInt64 == << 9, 2, 2, 3, 3, 7, 2, 0, 3, 6, 8, 5, 4, 7, 7, 5, 8, 0, 7 >>
Cutoff == << 9, 2, 2, 3, 3, 7, 2, 0, 3, 6, 8, 5, 4, 7, 7, 5, 8, 0, 8 >>

RECURSIVE StripZeros(_)
StripZeros(ds) ==
    IF ds # << >> /\ ds[1] = 0 THEN StripZeros(Tail(ds)) ELSE ds

\* a < b, for magnitudes without leading zeros.
Less(a, b) ==
    \/ Len(a) < Len(b)
    \/ /\ Len(a) = Len(b)
       /\ \E i \in 1 .. Len(a) :
            /\ a[i] < b[i]
            /\ \A j \in 1 .. i - 1 : a[j] = b[j]

\* strconv.ParseInt(s, 10, 64): an optional sign, then one or more decimal
\* digits. A syntax error gives 0; a value out of range gives the largest
\* magnitude of that sign, with an error as well.
ParseInt(s) ==
    LET neg == s # << >> /\ s[1] = "-"
        body == IF s # << >> /\ s[1] \in {"+", "-"} THEN Tail(s) ELSE s
        mag == StripZeros([i \in 1 .. Len(body) |-> DigitVal(body[i])])
    IN  IF body = << >> \/ \E i \in 1 .. Len(body) : ~IsDigit(body[i])
        THEN [val |-> Zero, err |-> "syntax"]
        ELSE IF ~neg /\ ~Less(mag, Cutoff)
        THEN [val |-> [neg |-> FALSE, mag |-> MaxInt64], err |-> "range"]
        ELSE IF neg /\ Less(Cutoff, mag)
        THEN [val |-> [neg |-> TRUE, mag |-> Cutoff], err |-> "range"]
        ELSE [val |-> [neg |-> neg /\ mag # << >>, mag |-> mag], err |-> ""]

\* r.Form of a /beacon request after ParseForm. A request that carries its
\* form has it in q.form; the others carry no field.
BeaconFormOf(q) ==
    IF "form" \in DOMAIN q THEN q.form
    ELSE [k \in {"dur", "src", "dst"} |-> << >>]

\* r.FormValue("dur"): the first value, the empty string when there is none.
DurOf(form) == IF form["dur"] = << >> THEN << >> ELSE form["dur"][1]

\* dur, err := strconv.ParseInt(strings.TrimSuffix(r.FormValue("dur"), "ms"), 10, 64)
ParseDur(form) == ParseInt(TrimSuffix(DurOf(form), Ms))

\* The BeaconRequest literal of Server.beacon: dur is used whatever err is.
BeaconRequest(form) ==
    [DurationMs |-> ParseDur(form).val,
     SrcPage |-> FormGet(form, "src"),
     DstPage |-> FormGet(form, "dst")]

\* The requests the handler programs receive.
HRequests ==
    [method : HMethods, path : {"/form", "/json", "/csp", "/beacon"},
     trigger : Triggers, valid : BOOLEAN, body : Bodies]

\* The requests that reach each handler (the mux routes by path). The fields
\* a handler never reads are left at one value.
JsonRequests ==
    { q \in HRequests :
        q.path = "/json" /\ q.trigger = "" /\ q.valid = JsonValid(q.body) }
FormRequests ==
    { q \in HRequests : q.path = "/form" /\ q.body = NoBody /\ q.valid }
CspRequests ==
    { q \in HRequests :
        /\ q.path = "/csp"
        /\ q.method \in RpcMethods
        /\ q.trigger = ""
        /\ q.valid = JsonValid(q.body) }
BeaconRequests ==
    { q \in HRequests :
        /\ q.path = "/beacon"
        /\ q.method \in RpcMethods
        /\ q.trigger = ""
        /\ q.body = NoBody
        /\ q.valid }

\* Request r arrives next at a program of the set vs.
Arrives(r, vs) ==
    /\ variant \in vs
    /\ proc = "running"
    /\ hpc[r] = "idle"
    /\ \A p \in Req : p < r => hpc[p] # "idle"

\* The body of json or form, once the body b is known to be JSON:
\* WriteHeader(200), then the Info entry with the message log(b); when log
\* panics the entry is never written and net/http aborts the response.
LogEntry(r, q, b, l) ==
    /\ status' = [status EXCEPT ![r] = 200]
    /\ resp' = [resp EXCEPT ![r] = CorsResp(variant)]
    /\ endpoint' = EndpointAdd(variant, l)
    /\ IF log(b) = "panic"
       THEN /\ hpc' = [hpc EXCEPT ![r] = "panic"]
            /\ logged' = logged
       ELSE /\ hpc' = [hpc EXCEPT ![r] = "done"]
            /\ logged' = Append(logged, [id |-> r, msg |-> log(b)])

\* Server.json of the log-only programs (part_001 runs it behind cors, and
\* its deferred endpoint.Add runs on every way out of the handler).
json(r, q) ==
    /\ cors(variant, q.method) # "pass" => q.body = NoBody
    /\ req' = [req EXCEPT ![r] = q]
    /\ IF cors(variant, q.method) = "preflight"
       THEN /\ status' = [status EXCEPT ![r] = 204]
            /\ resp' = [resp EXCEPT ![r] = CorsResp(variant)]
            /\ hpc' = [hpc EXCEPT ![r] = "done"]
            /\ UNCHANGED << logged, endpoint >>
       ELSE IF cors(variant, q.method) = "reject"
       THEN /\ status' = [status EXCEPT ![r] = 405]
            /\ resp' = [resp EXCEPT ![r] = NoResp]
            /\ hpc' = [hpc EXCEPT ![r] = "done"]
            /\ UNCHANGED << logged, endpoint >>
       ELSE IF ~JsonValid(q.body)
       THEN /\ status' = [status EXCEPT ![r] = 400]
            /\ resp' = [resp EXCEPT ![r] =
                            [allow |-> CorsResp(variant).allow, body |-> TRUE]]
            /\ hpc' = [hpc EXCEPT ![r] = "done"]
            /\ endpoint' = EndpointAdd(variant, "json")
            /\ logged' = logged
       ELSE LogEntry(r, q, q.body, "json")
    /\ UNCHANGED << variant, proc, mainVars, httpVars, trigger, late, rpc,
                    chanVars, saverVars, fileVars, cloudVars, histVars >>

\* Server.form of the log-only programs: the form is marshalled to JSON
\* (json.Marshal of a map of string slices does not fail) and logged.
form(r, q) ==
    /\ cors(variant, q.method) # "pass" => q.trigger = ""
    /\ req' = [req EXCEPT ![r] = q]
    /\ IF cors(variant, q.method) = "preflight"
       THEN /\ status' = [status EXCEPT ![r] = 204]
            /\ resp' = [resp EXCEPT ![r] = CorsResp(variant)]
            /\ hpc' = [hpc EXCEPT ![r] = "done"]
            /\ UNCHANGED << logged, endpoint >>
       ELSE IF cors(variant, q.method) = "reject"
       THEN /\ status' = [status EXCEPT ![r] = 405]
            /\ resp' = [resp EXCEPT ![r] = NoResp]
            /\ hpc' = [hpc EXCEPT ![r] = "done"]
            /\ UNCHANGED << logged, endpoint >>
       ELSE LogEntry(r, q, FormJSON(q), "form")
    /\ UNCHANGED << variant, proc, mainVars, httpVars, trigger, late, rpc,
                    chanVars, saverVars, fileVars, cloudVars, histVars >>

\* Server.csp of the RPC programs, up to the call s.client.LogCSP (part_002)
\* or s.client.CSP (part_003): a body that does not decode is answered 400.
csp(r, q) ==
    /\ req' = [req EXCEPT ![r] = q]
    /\ IF ~DecodeCsp(q.body)
       THEN /\ status' = [status EXCEPT ![r] = 400]
            /\ resp' = [resp EXCEPT ![r] = [allow |-> "", body |-> TRUE]]
            /\ hpc' = [hpc EXCEPT ![r] = "done"]
            /\ rpc' = rpc
       ELSE /\ hpc' = [hpc EXCEPT ![r] = "rpc"]
            /\ rpc' = [rpc EXCEPT ![r].n = @ + 1]
            /\ UNCHANGED << status, resp >>
    /\ UNCHANGED << variant, proc, mainVars, httpVars, trigger, late, logged,
                    endpoint, chanVars, saverVars, fileVars, cloudVars,
                    histVars >>

\* Server.beacon of the RPC programs, up to the call s.client.LogBeacon
\* (part_002) or s.client.Beacon (part_003): a duration that does not parse is
\* logged with Warn and the request is built and sent all the same.
beacon(r, q) ==
    /\ req' = [req EXCEPT ![r] = q]
    /\ hpc' = [hpc EXCEPT ![r] = "rpc"]
    /\ rpc' = [rpc EXCEPT ![r].n = @ + 1,
                          ![r].msg = BeaconRequest(BeaconFormOf(q))]
    /\ UNCHANGED << variant, proc, mainVars, httpVars, status, resp, trigger,
                    late, logged, endpoint, chanVars, saverVars, fileVars,
                    cloudVars, histVars >>

\* The mux hands the next request to the handler registered for its path.
ServeJson(r) == Arrives(r, LogVariants) /\ \E q \in JsonRequests : json(r, q)
ServeForm(r) == Arrives(r, LogVariants) /\ \E q \in FormRequests : form(r, q)
ServeCsp(r) == Arrives(r, RpcVariants) /\ \E q \in CspRequests : csp(r, q)
ServeBeacon(r) ==
    Arrives(r, RpcVariants) /\ \E q \in BeaconRequests : beacon(r, q)

\* A handler that answers a failed call with 502.
RpcStatusBadGateway(ok) == IF ok THEN 204 ELSE 502

\* The status the handler writes when the RPC has returned.
RpcStatus(ok) == IF ok THEN 204 ELSE 500

\* A handler that calls again when the call failed.
RpcReturnRetry(r, ok) ==
    /\ hpc[r] = "rpc"
    /\ IF ok \/ rpc[r].n > 1
       THEN /\ status' = [status EXCEPT ![r] = RpcStatus(ok)]
            /\ resp' = [resp EXCEPT ![r] = [allow |-> "", body |-> ~ok]]
            /\ hpc' = [hpc EXCEPT ![r] = "done"]
            /\ rpc' = [rpc EXCEPT ![r].err = ~ok]
       ELSE /\ rpc' = [rpc EXCEPT ![r].n = @ + 1]
            /\ UNCHANGED << status, resp, hpc >>
    /\ UNCHANGED << variant, proc, mainVars, httpVars, req, trigger, late,
                    logged, endpoint, chanVars, saverVars, fileVars,
                    cloudVars, histVars >>

\* The downstream RPC returns: on an error the handler answers 500 with
\* http.Error and returns; otherwise it answers 204. Nothing else is done
\* with the event.
RpcReturn(r, ok) ==
    /\ hpc[r] = "rpc"
    /\ status' = [status EXCEPT ![r] = RpcStatus(ok)]
    /\ resp' = [resp EXCEPT ![r] = [allow |-> "", body |-> ~ok]]
    /\ hpc' = [hpc EXCEPT ![r] = "done"]
    /\ rpc' = [rpc EXCEPT ![r].err = ~ok]
    /\ UNCHANGED << variant, proc, mainVars, httpVars, req, trigger, late,
                    logged, endpoint, chanVars, saverVars, fileVars,
                    cloudVars, histVars >>


Requests ==
    [method : Methods, path : {"/api", "/form", "/json"},
     trigger : Triggers, valid : BOOLEAN]

Next ==
    \/ \E sig \in Signals : Signal(sig)
    \/ ServeListen
    \/ ServeError
    \/ \E r \in Req, q \in Requests : Accept(r, q)
    \/ SrvShutdown
    \/ SrvShutdownReturn
    \/ MainReturn
    \/ \E r \in Req : HandlerInc(r)
    \/ MainGoSaver
    \/ MainGoServe
    \/ MainNotify
    \/ MainCaught
    \/ MainCloseSave
    \/ MainWaitDone
    \/ \E r \in Req : HandlerSend(r)
    \/ \E s \in Savers : SaverStart(s)
    \/ \E s \in Savers : SaverOpen(s)
    \/ \E s \in Savers : SaverRecv(s)
    \/ \E s \in Savers : EncodeBegin(s)
    \/ \E s \in Savers : EncodeEnd(s)
    \/ \E s \in Savers : EncodeFail(s)
    \/ \E s \in Savers : SaverDefer(s)
    \/ SigNotify
    \/ SigCancel
    \/ NewServer
    \/ RunGoServe
    \/ RunErr
    \/ RunCtxDone
    \/ SrvShutdownTimeout
    \/ RunClose
    \/ \E r \in Req : HandlerLog(r)
    \/ \E r \in Req : ServeJson(r)
    \/ \E r \in Req : ServeForm(r)
    \/ \E r \in Req : ServeCsp(r)
    \/ \E r \in Req : ServeBeacon(r)
    \/ \E r \in Req, ok \in BOOLEAN : RpcReturn(r, ok)

Spec == Init /\ [][Next]_vars

----------------------------------------------------------------------------
\* The path of one form submission through the file-sink program, with the
\* whole form: ServeHTTP has answered 204 and parsed the form, the saver
\* waits in its receive. The handler builds the event and sends it, the
\* saver encodes it, the handler increments the counter.

\* The values a form may hold for `trigger` and for src, dst and dur: none,
\* one, or two different ones.
TriggerValues == { << >>, << "ping" >>, << "" >>, << "ping", "" >>, << "", "ping" >> }
FieldValues == { << >>, << "/a" >>, << "/a", "/b" >>, << "/b", "/a" >> }

Forms ==
    { F \in [{"trigger", "src", "dst", "dur"} -> TriggerValues \cup FieldValues] :
        /\ F["trigger"] \in TriggerValues
        /\ \A k \in {"src", "dst", "dur"} : F[k] \in FieldValues }

\* POST /api with the form F.
ApiRequest(F) ==
    [method |-> "POST", path |-> "/api", trigger |-> FormGet(F, "trigger"),
     valid |-> TRUE, form |-> F]

InitForm ==
    /\ variant = "file"
    /\ proc = "running"
    /\ mainPc = "wait_sig"
    /\ sigPc = "none"
    /\ notified = TRUE
    /\ sigs = << >>
    /\ ctxDone = FALSE
    /\ servePc = "serving"
    /\ listener = "listening"
    /\ inShutdown = FALSE
    /\ \E F \in Forms :
          req = [r \in Req |-> IF r = 1 THEN ApiRequest(F) ELSE NoReq]
    /\ hpc = [r \in Req |-> IF r = 1 THEN "send" ELSE "idle"]
    /\ status = [r \in Req |-> IF r = 1 THEN 204 ELSE 0]
    /\ resp = [r \in Req |-> NoResp]
    /\ rpc = [r \in Req |-> [n |-> 0, err |-> FALSE, msg |-> NoMsg]]
    /\ logged = << >>
    /\ endpoint = [l \in EndpointLabels |-> 0]
    /\ save = [buf |-> << >>, closed |-> FALSE]
    /\ done = FALSE
    /\ saverPc = [s \in Savers |-> "recv"]
    /\ cur = [s \in Savers |-> NoEvent]
    /\ defers = [s \in Savers |-> << "close(done)", "f.Close" >>]
    /\ f = << >>
    /\ fOpen = 1
    /\ opens = 1
    /\ closes = 0
    /\ wbuf = << >>
    /\ obj = << >>
    /\ trigger = [l \in Labels |-> 0]
    /\ accepted = << >>
    /\ wroteSink = {}
    /\ signalled = FALSE
    /\ atSignal = {}
    /\ allBlocked = FALSE
    /\ openFailed = FALSE
    /\ writeErr = FALSE
    /\ late = {}

NextForm ==
    \/ \E r \in Req : HandlerSend(r)
    \/ \E s \in Savers : EncodeBegin(s)
    \/ \E s \in Savers : EncodeEnd(s)
    \/ \E r \in Req : HandlerInc(r)

SpecForm == InitForm /\ [][NextForm]_vars

----------------------------------------------------------------------------
\* The file-sink program under fair scheduling: every goroutine that can
\* take a step eventually takes one. The environment is not fair: no
\* signal, no request and no failure has to happen.

InitFile == Init /\ variant = "file"

NextFile ==
    \/ \E sig \in Signals : Signal(sig)
    \/ ServeListen
    \/ ServeError
    \/ \E r \in Req, q \in Requests : Accept(r, q)
    \/ SrvShutdown
    \/ SrvShutdownReturn
    \/ MainReturn
    \/ \E r \in Req : HandlerInc(r)
    \/ MainGoSaver
    \/ MainGoServe
    \/ MainNotify
    \/ MainCaught
    \/ MainCloseSave
    \/ MainWaitDone
    \/ \E r \in Req : HandlerSend(r)
    \/ \E s \in Savers : SaverStart(s)
    \/ \E s \in Savers : SaverOpen(s)
    \/ \E s \in Savers : SaverRecv(s)
    \/ \E s \in Savers : EncodeBegin(s)
    \/ \E s \in Savers : EncodeEnd(s)
    \/ \E s \in Savers : EncodeFail(s)
    \/ \E s \in Savers : SaverDefer(s)

\* The steps of the main goroutine from `<-sigs` on.
MainStep ==
    \/ MainCaught
    \/ SrvShutdown
    \/ SrvShutdownReturn
    \/ MainCloseSave
    \/ MainWaitDone
    \/ MainReturn

\* The steps of a saver goroutine (a failed write is no step it has to take).
SaverStep(s) ==
    \/ SaverStart(s)
    \/ SaverOpen(s)
    \/ SaverRecv(s)
    \/ EncodeBegin(s)
    \/ EncodeEnd(s)
    \/ SaverDefer(s)

\* The steps of a handler goroutine after the request was read.
HandlerStep(r) == HandlerSend(r) \/ HandlerInc(r)

\* The Go scheduler runs every runnable goroutine, and a send that a
\* waiting receiver can take completes.
FairFile ==
    /\ WF_vars(MainStep)
    /\ \A s \in Savers : WF_vars(SaverStep(s))
    /\ \A r \in Req : WF_vars(HandlerStep(r))

SpecFile == InitFile /\ [][NextFile]_vars /\ FairFile

----------------------------------------------------------------------------
\* The RPC programs serving /beacon, where the first request of a run
\* carries its whole form.

\* The values of the field `dur`: 1500ms, 1500, the empty string, ms, 15msms,
\* x, 1.5ms, -5ms, +5, 007ms, the int64 bounds and their neighbours.
DurValues ==
    { Chars(<< 1, 5, 0, 0 >>) \o Ms,
      Chars(<< 1, 5, 0, 0 >>),
      << >>,
      Ms,
      Chars(<< 1, 5 >>) \o Ms \o Ms,
      << "x" >>,
      << "1", ".", "5" >> \o Ms,
      << "-", "5" >> \o Ms,
      << "+", "5" >>,
      Chars(<< 0, 0, 7 >>) \o Ms,
      Chars(MaxInt64) \o Ms,
      Chars(Cutoff) \o Ms,
      << "-" >> \o Chars(Cutoff),
      << "-" >> \o Chars(SubSeq(Cutoff, 1, Len(Cutoff) - 1) \o << 9 >>) }

\* The field `dur` of a form: absent, given once, or given twice.
DurForms ==
    { << >> } \cup { << d >> : d \in DurValues }
              \cup { << Chars(<< 7 >>), Chars(<< 8 >>) >> }

BeaconForms == [dur : DurForms, src : FieldValues, dst : FieldValues]

\* POST /beacon with the form F.
BeaconFormRequests ==
    { [method |-> "POST", path |-> "/beacon", trigger |-> "", valid |-> TRUE,
       body |-> NoBody, form |-> F] : F \in BeaconForms }

ServeBeaconForm(r) ==
    /\ Arrives(r, RpcVariants)
    /\ r = 1
    /\ \E q \in BeaconFormRequests : beacon(r, q)

InitBeacon == Init /\ variant \in RpcVariants

NextBeacon ==
    \/ \E r \in Req : ServeBeaconForm(r)
    \/ \E r \in Req : ServeBeacon(r)
    \/ \E r \in Req, ok \in BOOLEAN : RpcReturn(r, ok)

SpecBeacon == InitBeacon /\ [][NextBeacon]_vars

----------------------------------------------------------------------------
\* The claims.

\* The requests whose handler records an event (the accepted POSTs).
Posts == { r \in Req : hpc[r] # "idle" /\ Filter(variant, req[r]) = "record" }

AllReturned == Posts # {} /\ \A r \in Posts : hpc[r] = "done"

SaverIdle == \A s \in Savers : saverPc[s] \in {"recv", "defers", "exited"}

\* The sink holds one complete line per submitted event and nothing else.
OneLinePerEvent ==
    /\ Len(Lines(Sink)) = Cardinality(Posts)
    /\ Rest(Sink, << >>) = << >>
    /\ \A i \in 1 .. Len(Lines(Sink)) : Decode(Lines(Sink)[i]) # NoEvent
    /\ SinkEvents = { EventOf(r, req[r]) : r \in Posts }

\* C1, as stated: file-sink variant, once all N handlers of the N accepted
\* POST requests have returned, the sink holds exactly N lines, each the
\* complete encoding of exactly one submitted event.
C1_AllReturnedThenNLines ==
    (variant = "file" /\ AllReturned) => OneLinePerEvent

\* C1, amended: file-sink variant, once all N handlers have returned and the
\* saver has finished the Encode of the last event it received (it waits in
\* its receive again or has left its loop), the sink holds exactly N lines,
\* one per submitted event, each the complete encoding of exactly one event.
C1_ReturnedAndSaverIdleThenNLines ==
    (variant = "file" /\ AllReturned /\ SaverIdle) => OneLinePerEvent

C1_Witness ==
    /\ variant = "file"
    /\ Cardinality(Posts) = MaxReq
    /\ AllReturned
    /\ SaverIdle
    /\ Len(Lines(f)) = MaxReq

\* The savers that hold an event and are serializing it to the sink.
Encoding == { s \in Savers : saverPc[s] \in {"encode", "encoding"} }

C3_OnlyWriterWritesSink == "handler" \notin wroteSink

\* C4, as stated: when the process has exited after a shutdown signal and
\* the shutdown it starts (srv.Shutdown, then the close of the writer), every
\* event the sink's writer accepted before the signal is in the sink, and
\* the listener accepts no connection.
C4_AcceptedBeforeSignalInSink ==
    (signalled /\ inShutdown /\ proc = "returned") =>
        (atSignal \subseteq SinkEvents /\ listener # "listening")

\* C5: at most one sink handle is ever opened, it is never closed more often
\* than it was opened, and when main has returned (a completed shutdown)
\* it was opened once and closed exactly once.
C5_OpenedOnceClosedOnce ==
    /\ opens <= 1
    /\ closes <= opens
    /\ fOpen = opens - closes
    /\ proc = "returned" => (opens = 1 /\ closes = 1)

C5_Witness == proc = "returned" /\ closes = 1 /\ accepted # << >>

\* C6: file-sink variant, shutdown() returns only after s.done is closed,
\* and s.done is closed only after the last Encode and after f.Close():
\* every event handed to the saver is a line of the file, the file is
\* closed and the saver has ended.
C6_ShutdownReturnsAfterFlushAndClose ==
    variant = "file" =>
        /\ mainPc = "exit" => done
        /\ done => /\ fOpen = 0
                   /\ closes = 1
                   /\ Len(Lines(f)) = Len(accepted)
                   /\ Range(accepted) \subseteq SinkEvents
                   /\ \A s \in Savers : saverPc[s] = "exited"

C6_Witness ==
    variant = "file" /\ mainPc = "exit" /\ Len(accepted) = MaxReq

\* C7, as stated: the process never exits on a signal (interrupt or
\* terminate, delivered once the program has called signal.Notify) before
\* the listener has stopped, the intake is closed and the sink is closed.
C7_NoExitOnSignalBeforeSinkClosed ==
    (proc \in {"returned", "killed"} /\ signalled /\ notified /\ opens > 0) =>
        /\ listener # "listening"
        /\ variant = "file" => save.closed
        /\ fOpen = 0

\* C8, as stated: no submit that was issued after the close completes
\* normally while its event is absent from the sink.
C8_LateSubmitNotSilentlyDropped ==
    \A r \in late :
        hpc[r] \in {"inc", "done"} => EventOf(r, req[r]) \in SinkEvents

\* C9, as stated: in no run where opening the sink fails has the listener
\* accepted a request or a handler run.
C9_OpenFailureBeforeServing ==
    openFailed => \A r \in Req : hpc[r] = "idle"

\* C10: file-sink variant, when an Encode has failed the process has
\* terminated with the saver stopped at the failed event: that event is the
\* last one the saver received and no line was written for it or after it.
C10_WriteFailureIsFatal ==
    writeErr =>
        /\ proc = "fatal"
        /\ Len(Lines(f)) = Len(accepted) - 1
        /\ \E s \in Savers :
            /\ saverPc[s] \in {"encode", "encoding"}
            /\ cur[s] = accepted[Len(accepted)]
            /\ cur[s] \notin SinkEvents

C10_Witness == writeErr /\ Len(Lines(f)) >= 1 /\ Rest(f, << >>) # << >>

\* C11: file-sink variant, the complete lines of the file, read back in
\* order, are the events the saver's loop received from s.save, in the order
\* it received them (the i-th line decodes to the i-th event received).
C11_SinkOrderIsReceiveOrder ==
    variant = "file" =>
        /\ Len(Lines(f)) <= Len(accepted)
        /\ \A i \in 1 .. Len(Lines(f)) : Decode(Lines(f)[i]) = accepted[i]

\* Two lines in the file, the first of them for the request that arrived
\* second: the receive order differs from the arrival order.
C11_Witness ==
    /\ variant = "file"
    /\ Len(Lines(f)) = 2
    /\ Decode(Lines(f)[1]).id = 2
    /\ Decode(Lines(f)[2]).id = 1

\* C12: file-sink variant, a handler leaves `s.save <- e` only in a step in
\* which a saver was waiting in its receive, took that very event and is
\* left holding it; in every step taken while no saver is waiting (it is
\* encoding another event) each handler at the send stays at the send.
C12_SubmitIsRendezvous ==
    [][\A r \in Req :
          (variant = "file" /\ hpc[r] = "send" /\ hpc'[r] # "send") =>
              /\ \E s \in Savers :
                    /\ saverPc[s] = "recv"
                    /\ cur'[s] = EventOf(r, req[r])
              /\ Len(accepted') = Len(accepted) + 1
              /\ accepted'[Len(accepted')] = EventOf(r, req[r])
              /\ trigger' = trigger]_vars

\* The saver is in the middle of encoding the second request's event, whose
\* handler has gone on, while the first request's handler is still blocked.
C12_Witness ==
    /\ variant = "file"
    /\ hpc[1] = "send"
    /\ hpc[2] \in {"inc", "done"}
    /\ \E s \in Savers : saverPc[s] = "encoding" /\ cur[s].id = 2

\* The record of request r has been handed to the sink of the program: a
\* line of the file, a line given to the object writer, an Info entry of
\* the logger, or a call of the downstream RPC.
Recorded(r) ==
    IF variant = "file" THEN EventOf(r, req[r]) \in SinkEvents
    ELSE IF variant = "cloud"
         THEN \E i \in 1 .. Len(Lines(wbuf)) :
                 Decode(Lines(wbuf)[i]) = EventOf(r, req[r])
    ELSE IF variant \in LogVariants
         THEN \E i \in 1 .. Len(logged) : logged[i].id = r
    ELSE rpc[r].n > 0

\* The handler of request r has run to its end (or has panicked).
Finished(r) == hpc[r] \in {"done", "panic"}

\* C13, as stated: in every program that serves /json, a POST to /json whose
\* body is not valid JSON is answered 400 and no record of it is written.
C13_InvalidJsonIs400 ==
    \A r \in Req :
        (Finished(r) /\ req[r].path = "/json" /\ req[r].method = "POST"
            /\ ~req[r].valid) =>
            (status[r] = 400 /\ ~Recorded(r))

\* The Info entries on the logger that carry the body of request r.
EntriesOf(r) == { i \in 1 .. Len(logged) : logged[i].id = r }

\* C14, as stated: in the log-only programs, every POST to /json whose body
\* is valid JSON (objects with a `csp-report` or a `trigger` key whose value
\* is an object included) is answered with a success status and adds
\* exactly one entry to the sink.
C14_ValidJsonIsOneEntry ==
    \A r \in Req :
        (variant \in LogVariants /\ Finished(r) /\ req[r].path = "/json"
            /\ req[r].method = "POST" /\ req[r].valid) =>
            /\ hpc[r] = "done"
            /\ status[r] \in {200, 204}
            /\ Cardinality(EntriesOf(r)) = 1

Success == {200, 204}
ClientError == {400, 405}

\* C15, as stated: in every program the status a handler writes is a 2xx or
\* a 4xx; a failure to persist never shows as another status.
C15_StatusIs2xxOr4xx ==
    \A r \in Req : status[r] # 0 => status[r] \in Success \cup ClientError

\* C15, amended: the status a handler writes is a 2xx or a 4xx, except in
\* the RPC programs, where a handler answers 500 exactly when its
\* downstream call failed; in the other programs a failure of the sink
\* (open, write, commit) never changes a status.
C15_StatusIs2xxOr4xxOr500OnRpcFailure ==
    \A r \in Req :
        /\ status[r] # 0 =>
              \/ status[r] \in Success \cup ClientError
              \/ status[r] = 500 /\ variant \in RpcVariants /\ rpc[r].err
        /\ (Finished(r) /\ rpc[r].err) => status[r] = 500

\* One request answered 500 after its call failed, another answered 204.
C15_Witness ==
    /\ variant \in RpcVariants
    /\ \E r \in Req : Finished(r) /\ rpc[r].err /\ status[r] = 500
    /\ \E r \in Req : Finished(r) /\ ~rpc[r].err /\ status[r] = 204

RECURSIVE SumOver(_, _)
SumOver(c, ls) ==
    IF ls = {} THEN 0
    ELSE LET l == CHOOSE x \in ls : TRUE
         IN  c[l] + SumOver(c, ls \ {l})

\* The total of the program's request counters.
CounterTotal ==
    IF variant \in Variants THEN SumOver(trigger, Labels)
    ELSE SumOver(endpoint, EndpointLabels)

\* Request r was accepted: answered with a success status, its event
\* produced and handed on.
AcceptedReq(r) ==
    /\ Finished(r)
    /\ status[r] \in Success
    /\ IF variant \in Variants THEN EventOf(r, req[r]) \in Range(accepted)
       ELSE IF variant \in LogVariants THEN EntriesOf(r) # {}
       ELSE rpc[r].n > 0

\* C16, as stated: in every program, once no handler is running, the total
\* of the counters equals the number of accepted requests (one increment
\* per accepted request), and no request was handed on more than once.
C16_OneIncrementPerAcceptedRequest ==
    (\A r \in Req : ~Active(r)) =>
        /\ CounterTotal = Cardinality({ r \in Req : AcceptedReq(r) })
        /\ \A r \in Req : rpc[r].n <= 1 /\ Cardinality(EntriesOf(r)) <= 1

\* The methods an endpoint accepts: those its handler's filter lets through
\* (with OPTIONS for the preflight) and, for a handler without a filter, the
\* documented ones.
AcceptedSet(v, path) ==
    IF v = "file" \/ (v = "cloud" /\ path = "/json") THEN {"POST", "OPTIONS"}
    ELSE {"GET", "POST", "OPTIONS"}

\* C17, as stated: in every program a request whose method is outside the
\* accepted set of its endpoint is answered 405 at once and leaves no
\* event: nothing recorded, no RPC, no counter increment.
C17_DisallowedMethodIs405 ==
    \A r \in Req :
        (hpc[r] # "idle" /\ req[r].method \notin AcceptedSet(variant, req[r].path)) =>
            /\ status[r] = 405
            /\ hpc[r] = "done"
            /\ ~Recorded(r)
            /\ rpc[r].n = 0
            /\ CounterTotal <= Cardinality({ p \in Req \ {r} : hpc[p] # "idle" })

\* C18, as stated: in every program that serves /api, /form or /json, the
\* step that serves an OPTIONS request answers 204 with
\* Access-Control-Allow-Methods set and no body, ends the handler, and
\* leaves the sink, the handoff channel and every counter unchanged.
C18_PreflightIs204AndNoEvent ==
    [][\A r \in Req :
          (variant \notin RpcVariants /\ hpc[r] = "idle" /\ hpc'[r] # "idle"
              /\ req'[r].method = "OPTIONS") =>
              /\ status'[r] = 204
              /\ resp'[r].allow # ""
              /\ ~resp'[r].body
              /\ hpc'[r] = "done"
              /\ UNCHANGED << f, wbuf, obj, logged, save, accepted, rpc,
                              trigger, endpoint >>]_vars

\* C20: in the RPC programs a /csp or /beacon request makes at most one
\* downstream call; when that call fails the handler has answered 500 and
\* ended, the call was not repeated and the event is held nowhere.
C20_OneRpcCallAnd500OnFailure ==
    variant \in RpcVariants =>
        \A r \in Req :
            /\ rpc[r].n <= 1
            /\ rpc[r].err =>
                  /\ hpc[r] = "done"
                  /\ status[r] = 500
                  /\ rpc[r].n = 1
            /\ hpc[r] = "rpc" => rpc[r].n = 1 /\ status[r] = 0

\* Both requests failed downstream and both were answered 500 after one
\* call each.
C20_Witness ==
    /\ variant \in RpcVariants
    /\ \A r \in Req : rpc[r].err /\ status[r] = 500 /\ rpc[r].n = 1
    /\ \E r \in Req : req[r].path = "/csp"
    /\ \E r \in Req : req[r].path = "/beacon"

\* What the form holds for a key: its first value, "" when it has none.
First(vs) == IF Len(vs) = 0 THEN "" ELSE Head(vs)

Verbatim(e, F) ==
    /\ e.Trigger = First(F["trigger"])
    /\ e.Src = First(F["src"])
    /\ e.Dst = First(F["dst"])
    /\ e.Dur = First(F["dur"])

\* C19: file-sink variant, for every form submitted to /api the event the
\* saver receives has Trigger, Src, Dst and Dur equal to the form's values
\* (the first value of a key, the empty string for an absent key), and the
\* line written for it decodes to the same four values; once the saver is
\* back in its receive that line is in the file.
C19_EventAndLineCarryFormValues ==
    \A r \in Req :
        "form" \in DOMAIN req[r] =>
            /\ \A s \in Savers : cur[s].id = r => Verbatim(cur[s], req[r].form)
            /\ \A i \in 1 .. Len(accepted) :
                  accepted[i].id = r => Verbatim(accepted[i], req[r].form)
            /\ \A i \in 1 .. Len(Lines(f)) :
                  /\ Decode(Lines(f)[i]).id = r
                  /\ Verbatim(Decode(Lines(f)[i]), req[r].form)
            /\ (hpc[r] # "send" /\ \A s \in Savers : saverPc[s] = "recv") =>
                  Len(Lines(f)) = 1

\* A form with two values for src and none for dst: the line holds the
\* first src and an empty dst.
C19_Witness ==
    /\ "form" \in DOMAIN req[1]
    /\ req[1].form["src"] = << "/a", "/b" >>
    /\ req[1].form["dst"] = << >>
    /\ req[1].form["trigger"] = << "", "ping" >>
    /\ Len(Lines(f)) = 1
    /\ Decode(Lines(f)[1]).Src = "/a"
    /\ Decode(Lines(f)[1]).Dst = ""
    /\ Decode(Lines(f)[1]).Trigger = ""
    /\ hpc[1] = "done"

\* C22: file-sink variant, once close(s.save) has run no handler is running
\* (none is blocked on the send, about to send, or between the send and the
\* increment), the listener accepts nothing more, and no send was ever
\* issued on the closed channel: no handler has panicked.
C22_CloseAfterAllHandlersReturned ==
    variant = "file" =>
        /\ save.closed =>
              /\ \A r \in Req : ~Active(r)
              /\ listener # "listening"
              /\ inShutdown
        /\ late = {}
        /\ \A r \in Req : hpc[r] # "panic"
        /\ proc # "panic"

\* The channel is closed after every handler has returned, one of them having
\* handed its event over only after the signal came: Shutdown waited for
\* it.
C22_Witness ==
    /\ variant = "file"
    /\ save.closed
    /\ \A r \in Req : hpc[r] = "done" /\ req[r].method = "POST"
    /\ Cardinality(atSignal) < MaxReq
    /\ Len(accepted) = MaxReq

\* C23, as stated: cloud-object variant, no handler calls Write on the
\* object writer after Run has called s.w.Close(), whichever way Run left
\* its select (an error from the listener, or the signal and srv.Shutdown
\* with its timeout).
C23_NoHandlerWriteAfterClose ==
    variant = "cloud" => late = {}

\* The handlers that have completed their send and not yet incremented.
BetweenSendAndInc == { r \in Req : hpc[r] = "inc" }

SigintCaught ==
    /\ variant = "file"
    /\ \/ sigs # << >>
       \/ mainPc \notin {"go_saver", "go_serve", "notify", "wait_sig"}

RECURSIVE Value(_)
Value(ds) == IF ds = << >> THEN 0 ELSE 10 * Value(SubSeq(ds, 1, Len(ds) - 1)) + ds[Len(ds)]

\* The integer value of a forwarded duration of at most nine digits.
IntOf(v) == IF v.neg THEN 0 - Value(v.mag) ELSE Value(v.mag)

\* The characters are an optional sign and then decimal digits, nine at most.
ShortDecimal(d) ==
    LET body == IF d # << >> /\ d[1] \in {"+", "-"} THEN Tail(d) ELSE d
    IN  /\ body # << >>
        /\ Len(body) <= 9
        /\ \A i \in 1 .. Len(body) : IsDigit(body[i])

SignedValue(d) ==
    LET body == IF d[1] \in {"+", "-"} THEN Tail(d) ELSE d
        n == Value([i \in 1 .. Len(body) |-> DigitVal(body[i])])
    IN  IF d[1] = "-" THEN 0 - n ELSE n

\* The /beacon requests whose handler has built and sent its BeaconRequest.
Forwarded == { r \in Req : variant \in RpcVariants /\ req[r].path = "/beacon" /\ hpc[r] \in {"rpc", "done"} }

\* C21, as stated: /beacon forwards DurationMs = the base-10 value of `dur`
\* without one trailing "ms", SrcPage = src and DstPage = dst; a `dur` that
\* ParseInt refuses does not reject the request: the event is forwarded
\* once, with DurationMs 0, and the answer is 204 when the RPC succeeds.
C21_BeaconForwardsDuration ==
    \A r \in Forwarded :
        LET F == BeaconFormOf(req[r])
            d == TrimSuffix(DurOf(F), Ms)
            m == rpc[r].msg
        IN  /\ rpc[r].n = 1
            /\ m.SrcPage = First(F["src"])
            /\ m.DstPage = First(F["dst"])
            /\ ShortDecimal(d) => IntOf(m.DurationMs) = SignedValue(d)
            /\ ParseInt(d).err # "" => m.DurationMs = Zero
            /\ (hpc[r] = "done" /\ ~rpc[r].err) => status[r] = 204
====
